---- MODULE Spec2Model ----
(***************************************************************************)
(* ArcVote: confidential quadratic voting.                                 *)
(*   - src/encrypted-ixs/src/lib.rs: the three circuits evaluated by the   *)
(*     computation cluster (init_tallies, cast_vote, reveal_results).      *)
(*   - src/programs/private-voting/src/lib.rs: the ledger program          *)
(*     (create_proposal, cast_vote, reveal_results and their callbacks).   *)
(***************************************************************************)
EXTENDS Integers, Sequences, FiniteSets, TLC

(***************************************************************************)
(* u64 arithmetic.  A u64 is a little-endian tuple of Limbs digits in base *)
(* Base (8 bytes), so that +, * and the comparisons keep their 64-bit      *)
(* width (wrapping modulo 2^64).                                           *)
(***************************************************************************)
Limbs == 8
Base == 256

U64 == [1..Limbs -> 0..(Base - 1)]

RECURSIVE ToLimbs(_, _)
ToLimbs(n, i) ==
    IF i > Limbs THEN <<>> ELSE <<n % Base>> \o ToLimbs(n \div Base, i + 1)

\* the u64 whose value is the (small) natural n
u64(n) == ToLimbs(n, 1)

\* the u64 whose value is 2^(8*(k-1)) * d : digit d in limb k
Digit(k, d) == [i \in 1..Limbs |-> IF i = k THEN d ELSE 0]

RECURSIVE AddLimbs(_, _, _, _, _)
AddLimbs(a, b, i, carry, n) ==
    IF i > n THEN <<>>
    ELSE LET s == a[i] + b[i] + carry
         IN  <<s % Base>> \o AddLimbs(a, b, i + 1, s \div Base, n)

RECURSIVE Column(_, _, _, _)
Column(a, b, k, i) ==
    IF i > k THEN 0 ELSE a[i] * b[k + 1 - i] + Column(a, b, k, i + 1)

RECURSIVE MulLimbs(_, _, _, _, _)
MulLimbs(a, b, k, carry, n) ==
    IF k > n THEN <<>>
    ELSE LET s == Column(a, b, k, 1) + carry
         IN  <<s % Base>> \o MulLimbs(a, b, k + 1, s \div Base, n)

RECURSIVE GtFrom(_, _, _)
GtFrom(a, b, i) ==
    IF i < 1 THEN FALSE
    ELSE IF a[i] # b[i] THEN a[i] > b[i]
    ELSE GtFrom(a, b, i - 1)

\* a + b on u64: the carry out of the last limb is lost
Add(a, b) == AddLimbs(a, b, 1, 0, Limbs)

\* a * b on u64: the limbs above the last are lost
Mul(a, b) == MulLimbs(a, b, 1, 0, Limbs)

\* a > b on u64 (unsigned)
Gt(a, b) == GtFrom(a, b, Limbs)

\* a <= b on u64 (unsigned)
Le(a, b) == ~Gt(a, b)

\* Exact arithmetic, for stating properties: numbers of WideLimbs digits,
\* wide enough for the sum of four squares of u64 values.
WideLimbs == 2 * Limbs + 1
Wide(a) == [i \in 1..WideLimbs |-> IF i <= Limbs THEN a[i] ELSE 0]
WideAdd(a, b) == AddLimbs(a, b, 1, 0, WideLimbs)
WideSquare(a) == MulLimbs(Wide(a), Wide(a), 1, 0, WideLimbs)
WideGt(a, b) == GtFrom(a, b, WideLimbs)

(***************************************************************************)
(* The circuits (src/encrypted-ixs/src/lib.rs).                            *)
(***************************************************************************)
Budget == 100

VoteTallies == [option_0 : U64, option_1 : U64, option_2 : U64,
                option_3 : U64, total_votes : U64]

VoteAllocation == [v0 : U64, v1 : U64, v2 : U64, v3 : U64]

\* a tally that starts with one vote for the first option
init_tallies_one ==
    [option_0 |-> u64(1), option_1 |-> u64(0), option_2 |-> u64(0),
     option_3 |-> u64(0), total_votes |-> u64(1)]

init_tallies ==
    [option_0 |-> u64(0), option_1 |-> u64(0), option_2 |-> u64(0),
     option_3 |-> u64(0), total_votes |-> u64(0)]

\* the quadratic cost v0*v0 + v1*v1 + v2*v2 + v3*v3, in u64
Cost(alloc) ==
    Add(Add(Add(Mul(alloc.v0, alloc.v0), Mul(alloc.v1, alloc.v1)),
            Mul(alloc.v2, alloc.v2)),
        Mul(alloc.v3, alloc.v3))

\* the budget test of circuits::cast_vote
WithinBudget(alloc) == Le(Cost(alloc), u64(Budget))

circuit_cast_vote(alloc, tallies) ==
    IF WithinBudget(alloc)
    THEN [option_0 |-> Add(tallies.option_0, alloc.v0),
          option_1 |-> Add(tallies.option_1, alloc.v1),
          option_2 |-> Add(tallies.option_2, alloc.v2),
          option_3 |-> Add(tallies.option_3, alloc.v3),
          total_votes |-> Add(tallies.total_votes,
                              Add(Add(Add(alloc.v0, alloc.v1), alloc.v2),
                                  alloc.v3))]
    ELSE tallies

\* the running-maximum comparison of circuits::reveal_results, made non-strict
BeatsOrTies(count, max_votes) == ~Gt(max_votes, count)

\* the running-maximum comparison of circuits::reveal_results
Beats(count, max_votes) == Gt(count, max_votes)

circuit_reveal_results(tallies) ==
    LET m0 == tallies.option_0
        w0 == 0
        b1 == Beats(tallies.option_1, m0)
        m1 == IF b1 THEN tallies.option_1 ELSE m0
        w1 == IF b1 THEN 1 ELSE w0
        b2 == Beats(tallies.option_2, m1)
        m2 == IF b2 THEN tallies.option_2 ELSE m1
        w2 == IF b2 THEN 2 ELSE w1
        b3 == Beats(tallies.option_3, m2)
        w3 == IF b3 THEN 3 ELSE w2
    IN  [option_0 |-> tallies.option_0, option_1 |-> tallies.option_1,
         option_2 |-> tallies.option_2, option_3 |-> tallies.option_3,
         total_votes |-> tallies.total_votes, winner |-> w3]

\* the counter of option i in a tally or in revealed results
Count(t, i) ==
    CASE i = 0 -> t.option_0
      [] i = 1 -> t.option_1
      [] i = 2 -> t.option_2
      [] i = 3 -> t.option_3

\* the allocation value of option i
AllocOf(alloc, i) ==
    CASE i = 0 -> alloc.v0
      [] i = 1 -> alloc.v1
      [] i = 2 -> alloc.v2
      [] i = 3 -> alloc.v3

\* the one-credit ballot for option i
OneCredit(i) ==
    [v0 |-> u64(IF i = 0 THEN 1 ELSE 0), v1 |-> u64(IF i = 1 THEN 1 ELSE 0),
     v2 |-> u64(IF i = 2 THEN 1 ELSE 0), v3 |-> u64(IF i = 3 THEN 1 ELSE 0)]

(***************************************************************************)
(* Bounds of the model.                                                    *)
(***************************************************************************)
NumUsers == 2
MaxTime == 1
MaxComps == 4
MaxQuorum == 1
MaxCount == 2

Users == 1..NumUsers
\* the users are interchangeable: the proposal is created by the first one
Creators == {u \in Users : \A v \in Users : u <= v}
Deadlines == 1..MaxTime
Quorums == 1..MaxQuorum
OptionCounts == {2}

(***************************************************************************)
(* State of the ledger program and of the computation network.             *)
(***************************************************************************)
VARIABLES
    now,            \* Clock::get()?.unix_timestamp
    proposal_acc,   \* the ProposalAccount
    voter_records,  \* the payers whose VoterRecord PDA exists for the proposal
    computations,   \* the computations queued so far, indexed by computation
                    \* offset, each with the event its callback emitted
    harness         \* input and output of a circuit evaluated on its own

vars == <<now, proposal_acc, voter_records, computations, harness>>

\* an Enc<Mxe, VoteTallies>: the plaintext pt encrypted under nonce key
Enc(pt, key) == [pt |-> pt, key |-> key]

\* vote_state = [[0; 32]; 5]: raw zero bytes, a ciphertext under no nonce
NoKey == -1
ZeroBytes == Enc(init_tallies, NoKey)

\* what decrypting bytes under a nonce they were not encrypted with may give
GarbageTallies ==
    {[option_0 |-> Digit(8, 170), option_1 |-> Digit(7, 85),
      option_2 |-> Digit(8, 3), option_3 |-> Digit(6, 1),
      total_votes |-> Digit(8, 99)],
     [option_0 |-> Digit(5, 1), option_1 |-> Digit(8, 255),
      option_2 |-> u64(0), option_3 |-> Digit(8, 254),
      total_votes |-> u64(7)]}

\* tallies_ctxt.to_arcis(): the plaintexts the circuit may compute on
Decrypt(ctxt, nonce) ==
    IF ctxt.key = nonce THEN {ctxt.pt} ELSE GarbageTallies

\* the nonce under which the output of computation c is encrypted
OutputNonce(c) == c

\* the nonce argument of create_proposal
CallerNonce == 0

NoAccount ==
    [initialized |-> FALSE, authority |-> 0, nonce |-> 0, num_options |-> 0,
     deadline |-> 0, quorum |-> 0, is_finalized |-> FALSE, voter_count |-> 0,
     vote_state |-> ZeroBytes]

NoAlloc == [v0 |-> u64(0), v1 |-> u64(0), v2 |-> u64(0), v3 |-> u64(0)]
NoOutput == [ready |-> FALSE]
NoEvent == [type |-> "none"]
Idle == [op |-> "idle"]

\* the ballots cast in the program model: one-credit ballots for the first
\* and for the last option and a ballot over budget (11*11 = 121)
OverBudget == [v0 |-> u64(11), v1 |-> u64(0), v2 |-> u64(0), v3 |-> u64(0)]
Ballots == {OneCredit(0), OneCredit(3), OverBudget}

Comps == 1..Len(computations)

\* the computations whose callback has not run yet
Pending == {c \in Comps : computations[c].status \in {"queued", "executed"}}

\* queue_computation: the computation with the next free offset.  It keeps
\* the arguments built at submission (nonce, alloc), and for the properties
\* the account as it was before the instruction (before), the time (at) and
\* the kinds of the computations pending at that time (pending).
Queue(kind, payer, nonce, alloc) ==
    Append(computations,
           [kind |-> kind, status |-> "queued", payer |-> payer,
            nonce |-> nonce, alloc |-> alloc, out |-> NoOutput,
            event |-> NoEvent, before |-> proposal_acc, at |-> now,
            pending |-> {computations[c].kind : c \in Pending}])

\* the computation account once its callback has run, with no event logged
FinishedSilent(comp, status, event) ==
    [comp EXCEPT !.status = status, !.event = NoEvent, !.nonce = 0,
                 !.out = NoOutput, !.before = NoAccount,
                 !.alloc = IF status = "applied" THEN @ ELSE NoAlloc]

\* the computation account once its callback has run: arguments and output
\* are gone, the emitted event stays in the log
Finished(comp, status, event) ==
    [comp EXCEPT !.status = status, !.event = event, !.nonce = 0,
                 !.out = NoOutput, !.before = NoAccount,
                 !.alloc = IF status = "applied" THEN @ ELSE NoAlloc]

Init ==
    /\ now = 0
    /\ proposal_acc = NoAccount
    /\ voter_records = {}
    /\ computations = <<>>
    /\ harness = Idle

(***************************************************************************)
(* The instructions (src/programs/private-voting/src/lib.rs).  An          *)
(* instruction that returns an error is reverted as a whole: it changes    *)
(* nothing.  X_err is the result the instruction X returns in the current  *)
(* state.                                                                  *)
(***************************************************************************)
Tick ==
    /\ now < MaxTime
    /\ now' = now + 1
    /\ UNCHANGED <<proposal_acc, voter_records, computations, harness>>

\* `init` of the proposal PDA fails if the account exists
create_proposal_err(payer) ==
    IF proposal_acc.initialized THEN "AccountAlreadyInUse" ELSE "Ok"

create_proposal(payer, num_options, deadline, quorum) ==
    IF create_proposal_err(payer) = "Ok"
    THEN /\ Len(computations) < MaxComps
         /\ proposal_acc' =
                [initialized |-> TRUE, authority |-> payer,
                 nonce |-> CallerNonce, num_options |-> num_options,
                 deadline |-> deadline, quorum |-> quorum,
                 is_finalized |-> FALSE, voter_count |-> 0,
                 vote_state |-> ZeroBytes]
         /\ computations' = Queue("init_tallies", payer, CallerNonce, NoAlloc)
         /\ UNCHANGED <<now, voter_records, harness>>
    ELSE UNCHANGED vars

init_tallies_callback(c, verified) ==
    /\ c \in 1..Len(computations)
    /\ computations[c].kind = "init_tallies"
    /\ IF verified
       THEN /\ computations[c].status = "executed"
            /\ proposal_acc' =
                   [proposal_acc EXCEPT
                        !.vote_state = computations[c].out.ciphertexts,
                        !.nonce = computations[c].out.nonce]
            /\ computations' =
                   [computations EXCEPT
                        ![c] = Finished(@, "applied", NoEvent)]
       ELSE /\ computations[c].status \in {"queued", "executed"}
            /\ computations' =
                   [computations EXCEPT
                        ![c] = Finished(@, "aborted", NoEvent)]
            /\ UNCHANGED proposal_acc
    /\ UNCHANGED <<now, voter_records, harness>>

\* `init` of the VoterRecord PDA, succeeding on an existing account as well
VoterRecordFreeAlways(payer) == TRUE

\* `init` of the VoterRecord PDA succeeds only if the account does not exist
VoterRecordFree(payer) == payer \notin voter_records

\* the deadline gate of cast_vote, with the comparison dropped
VotingOpenAlways(timestamp, deadline) == TRUE

\* the deadline gate of cast_vote, off by one
VotingOpenInclusive(timestamp, deadline) == timestamp <= deadline

\* the deadline gate of cast_vote
VotingOpen(timestamp, deadline) == timestamp < deadline

\* the accounts are validated (and the VoterRecord created) before the body
cast_vote_err(payer) ==
    IF ~proposal_acc.initialized THEN "AccountNotInitialized"
    ELSE IF ~VoterRecordFree(payer) THEN "AccountAlreadyInUse"
    ELSE IF ~VotingOpen(now, proposal_acc.deadline) THEN "VotingPeriodEnded"
    ELSE IF proposal_acc.is_finalized THEN "ProposalAlreadyFinalized"
    ELSE "Ok"

\* cast_vote without the increment of voter_count
cast_vote_uncounted(payer, alloc) ==
    IF cast_vote_err(payer) = "Ok"
    THEN /\ Len(computations) < MaxComps
         /\ voter_records' = voter_records \cup {payer}
         /\ computations' =
                Queue("cast_vote", payer, proposal_acc.nonce, alloc)
         /\ UNCHANGED <<now, proposal_acc, harness>>
    ELSE UNCHANGED vars

cast_vote(payer, alloc) ==
    IF cast_vote_err(payer) = "Ok"
    THEN /\ Len(computations) < MaxComps
         /\ voter_records' = voter_records \cup {payer}
         /\ proposal_acc' = [proposal_acc EXCEPT !.voter_count = @ + 1]
         /\ computations' =
                Queue("cast_vote", payer, proposal_acc.nonce, alloc)
         /\ UNCHANGED <<now, harness>>
    ELSE UNCHANGED vars

cast_vote_callback(c, verified) ==
    /\ c \in 1..Len(computations)
    /\ computations[c].kind = "cast_vote"
    /\ IF verified
       THEN /\ computations[c].status = "executed"
            /\ proposal_acc' =
                   [proposal_acc EXCEPT
                        !.vote_state = computations[c].out.ciphertexts,
                        !.nonce = computations[c].out.nonce]
            /\ computations' =
                   [computations EXCEPT
                        ![c] = Finished(@, "applied",
                                   [type |-> "VoteCastEvent",
                                    timestamp |-> now,
                                    voter_count |-> proposal_acc.voter_count])]
       ELSE /\ computations[c].status \in {"queued", "executed"}
            /\ computations' =
                   [computations EXCEPT
                        ![c] = Finished(@, "aborted", NoEvent)]
            /\ UNCHANGED proposal_acc
    /\ UNCHANGED <<now, voter_records, harness>>

\* the deadline gate of reveal_results, with the comparison dropped
RevealOpenAlways(timestamp, deadline) == TRUE

\* the deadline gate of reveal_results
RevealOpen(timestamp, deadline) == timestamp >= deadline

\* the quorum gate of reveal_results, made strict
QuorumMetStrict(voter_count, quorum) == voter_count > quorum

\* the quorum gate of reveal_results
QuorumMet(voter_count, quorum) == voter_count >= quorum

\* the finalized gate of reveal_results, dropped
NotFinalizedAlways(acc) == TRUE

\* the finalized gate of reveal_results
NotFinalized(acc) == ~acc.is_finalized

\* seeds = [b"proposal", payer, id]: the proposal must be the payer's own PDA
SeedsMatch(payer) == payer = proposal_acc.authority

reveal_results_err(payer) ==
    IF ~proposal_acc.initialized THEN "AccountNotInitialized"
    ELSE IF ~SeedsMatch(payer) THEN "ConstraintSeeds"
    ELSE IF payer # proposal_acc.authority THEN "InvalidAuthority"
    ELSE IF ~RevealOpen(now, proposal_acc.deadline) THEN "VotingPeriodNotEnded"
    ELSE IF ~NotFinalized(proposal_acc) THEN "ProposalAlreadyFinalized"
    ELSE IF ~QuorumMet(proposal_acc.voter_count, proposal_acc.quorum)
         THEN "QuorumNotMet"
    ELSE "Ok"

reveal_results(payer) ==
    IF reveal_results_err(payer) = "Ok"
    THEN /\ Len(computations) < MaxComps
         /\ computations' =
                Queue("reveal_results", payer, proposal_acc.nonce, NoAlloc)
         /\ UNCHANGED <<now, proposal_acc, voter_records, harness>>
    ELSE UNCHANGED vars

reveal_results_callback(c, verified) ==
    /\ c \in 1..Len(computations)
    /\ computations[c].kind = "reveal_results"
    /\ IF verified
       THEN /\ computations[c].status = "executed"
            /\ proposal_acc' = [proposal_acc EXCEPT !.is_finalized = TRUE]
            /\ computations' =
                   [computations EXCEPT
                        ![c] = Finished(@, "applied",
                                   [type |-> "ResultsRevealedEvent",
                                    results |-> computations[c].out.results])]
       ELSE /\ computations[c].status \in {"queued", "executed"}
            /\ computations' =
                   [computations EXCEPT
                        ![c] = Finished(@, "aborted", NoEvent)]
            /\ UNCHANGED proposal_acc
    /\ UNCHANGED <<now, voter_records, harness>>

(***************************************************************************)
(* The computation cluster evaluates a queued circuit on the arguments     *)
(* built at submission and on the account data it reads when it runs.      *)
(***************************************************************************)
Execute(c) ==
    /\ c \in 1..Len(computations)
    /\ computations[c].status = "queued"
    /\ \E t \in Decrypt(proposal_acc.vote_state, computations[c].nonce) :
          LET out ==
                CASE computations[c].kind = "init_tallies" ->
                       [ready |-> TRUE,
                        ciphertexts |-> Enc(init_tallies, OutputNonce(c)),
                        nonce |-> OutputNonce(c)]
                  [] computations[c].kind = "cast_vote" ->
                       [ready |-> TRUE,
                        ciphertexts |->
                            Enc(circuit_cast_vote(computations[c].alloc, t),
                                OutputNonce(c)),
                        nonce |-> OutputNonce(c)]
                  [] computations[c].kind = "reveal_results" ->
                       [ready |-> TRUE, results |-> circuit_reveal_results(t)]
          IN  computations' =
                  [computations EXCEPT ![c].status = "executed", ![c].out = out]
    /\ UNCHANGED <<now, proposal_acc, voter_records, harness>>

Next ==
    \/ Tick
    \/ \E payer \in Creators, k \in OptionCounts, d \in Deadlines, q \in Quorums :
          create_proposal(payer, k, d, q)
    \/ \E c \in 1..MaxComps, verified \in BOOLEAN : init_tallies_callback(c, verified)
    \/ \E payer \in Users, alloc \in Ballots : cast_vote(payer, alloc)
    \/ \E c \in 1..MaxComps, verified \in BOOLEAN : cast_vote_callback(c, verified)
    \/ \E payer \in Users : reveal_results(payer)
    \/ \E c \in 1..MaxComps, verified \in BOOLEAN : reveal_results_callback(c, verified)
    \/ \E c \in 1..MaxComps : Execute(c)

Spec == Init /\ [][Next]_vars

(***************************************************************************)
(* The circuits evaluated on their own, on inputs drawn from bounded sets. *)
(***************************************************************************)
\* allocation values: small ones around the budget, and values whose square
\* does not fit in 64 bits: 2^32, 2^63 and 2^64 - 1
TestValues ==
    {u64(0), u64(1), u64(10), u64(11), Digit(5, 1), Digit(8, 128),
     [i \in 1..Limbs |-> Base - 1]}

TestAllocs ==
    {[v0 |-> a, v1 |-> b, v2 |-> c, v3 |-> d] :
        a \in TestValues, b \in TestValues, c \in TestValues, d \in TestValues}

\* counter values: 0..MaxCount, 5 and 2^63
TestCounts == {u64(n) : n \in 0..MaxCount} \cup {u64(5), Digit(8, 128)}

TallyOf(a, b, c, d) ==
    [option_0 |-> a, option_1 |-> b, option_2 |-> c, option_3 |-> d,
     total_votes |-> Add(Add(Add(a, b), c), d)]

TestTallies ==
    {TallyOf(a, b, c, d) :
        a \in TestCounts, b \in TestCounts, c \in TestCounts, d \in TestCounts}

HarnessInputs ==
    {[op |-> "input", alloc |-> a, tallies |-> t, out |-> NoOutput] :
        a \in TestAllocs,
        t \in {init_tallies, TallyOf(u64(1), u64(2), u64(0), u64(5))}}
    \cup {[op |-> "input", alloc |-> NoAlloc, tallies |-> t, out |-> NoOutput] :
            t \in TestTallies}

InitCircuit ==
    /\ now = 0
    /\ proposal_acc = NoAccount
    /\ voter_records = {}
    /\ computations = <<>>
    /\ harness \in HarnessInputs

HarnessInit ==
    /\ harness.op = "input"
    /\ harness' = [harness EXCEPT !.op = "init_tallies", !.out = init_tallies]
    /\ UNCHANGED <<now, proposal_acc, voter_records, computations>>

HarnessCastVote ==
    /\ harness.op = "input"
    /\ harness' = [harness EXCEPT
                       !.op = "cast_vote",
                       !.out = circuit_cast_vote(harness.alloc, harness.tallies)]
    /\ UNCHANGED <<now, proposal_acc, voter_records, computations>>

HarnessReveal ==
    /\ harness.op = "input"
    /\ harness' = [harness EXCEPT
                       !.op = "reveal_results",
                       !.out = circuit_reveal_results(harness.tallies)]
    /\ UNCHANGED <<now, proposal_acc, voter_records, computations>>

NextCircuit == HarnessInit \/ HarnessCastVote \/ HarnessReveal

SpecCircuit == InitCircuit /\ [][NextCircuit]_vars

(***************************************************************************)
(* Properties.                                                             *)
(***************************************************************************)
Options == 0..3

\* C9: the winner returned by reveal is the lowest index whose count is the
\* maximum of the four counts: no count exceeds the winner's, every option
\* of smaller index has a strictly smaller count, and the counts and the
\* total are returned as they are in the tally.
C9_WinnerIsLowestMax ==
    harness.op = "reveal_results" =>
        LET t == harness.tallies
            r == harness.out
        IN  /\ r.winner \in Options
            /\ \A i \in Options :
                  /\ ~Gt(Count(t, i), Count(t, r.winner))
                  /\ i < r.winner => Gt(Count(t, r.winner), Count(t, i))
            /\ \A i \in Options : Count(r, i) = Count(t, i)
            /\ r.total_votes = t.total_votes

\* C9 witness: the counts 5,5,0,0 were revealed with winner 0
C9_Witness ==
    /\ harness.op = "reveal_results"
    /\ harness.tallies = TallyOf(u64(5), u64(5), u64(0), u64(0))
    /\ harness.out.winner = 0

\* the true cost v0^2 + v1^2 + v2^2 + v3^2, without wrapping
TrueCost(alloc) ==
    WideAdd(WideAdd(WideAdd(WideSquare(alloc.v0), WideSquare(alloc.v1)),
                    WideSquare(alloc.v2)),
            WideSquare(alloc.v3))

OverTrueBudget(alloc) == WideGt(TrueCost(alloc), Wide(u64(Budget)))

\* C10: apply-vote of an allocation whose true sum of squares exceeds the
\* budget returns the tally with every counter and the total unchanged.
C10_OverBudgetIsNoOp ==
    (harness.op = "cast_vote" /\ OverTrueBudget(harness.alloc)) =>
        harness.out = harness.tallies

(***************************************************************************)
(* Properties of the program.                                              *)
(***************************************************************************)
\* the computations whose callback emitted a results-revealed notification
Revealed ==
    {c \in Comps : computations[c].event.type = "ResultsRevealedEvent"}

\* the computations queued by the step
Queued(kind) ==
    {c \in 1..Len(computations') :
        c > Len(computations) /\ computations'[c].kind = kind}

\* C1: once a cast_vote by a voter was accepted (the voter's record exists),
\* every later cast_vote by that voter fails with AlreadyVoted.  (That the
\* rejected call changes no state is part of the action cast_vote.)
C1_SecondVoteFailsAlreadyVoted ==
    \A p \in voter_records : cast_vote_err(p) = "AlreadyVoted"

\* the number of accepted ballots that are the one-credit ballot for i
Chose(i) ==
    Cardinality({c \in Comps : /\ computations[c].kind = "cast_vote"
                               /\ computations[c].alloc = OneCredit(i)})

Votes == {c \in Comps : computations[c].kind = "cast_vote"}

\* C2: when every ballot is a one-credit ballot cast on an initialized
\* proposal (no init computation pending), every computation returned a
\* verified callback and the reveal was submitted after all of them, the
\* revealed count of each option i is the number of voters who chose i and
\* the revealed total is the number of voters.
C2_RevealedCountsMatchBallots ==
    ( /\ \A c \in Comps : computations[c].status = "applied"
      /\ \A c \in Votes :
            /\ \E i \in Options : computations[c].alloc = OneCredit(i)
            /\ "init_tallies" \notin computations[c].pending
      /\ \A c \in Revealed : computations[c].pending = {} )
    => \A c \in Revealed :
          LET r == computations[c].event.results
          IN  /\ \A i \in Options : Count(r, i) = u64(Chose(i))
              /\ r.total_votes = u64(Cardinality(Votes))

\* the step applies the verified callback of the reveal computation c, which
\* was accepted by reveal_results at or after the deadline, from the
\* authority, with the quorum met
GatedReveal(c) ==
    /\ computations[c].kind = "reveal_results"
    /\ computations[c].status = "executed"
    /\ computations'[c].status = "applied"
    /\ computations[c].at >= computations[c].before.deadline
    /\ computations[c].payer = computations[c].before.authority
    /\ computations[c].before.voter_count >= computations[c].before.quorum
    /\ computations[c].before.deadline = proposal_acc.deadline
    /\ computations[c].before.quorum = proposal_acc.quorum
    /\ computations[c].before.authority = proposal_acc.authority

\* C3: a proposal becomes finalized, and a results-revealed notification is
\* emitted, only by the callback of a reveal_results call accepted at a time
\* now >= deadline, from the authority, with voter_count >= quorum; a
\* finalized proposal is past its deadline and has its quorum.
C3_FinalizedOnlyByGatedReveal ==
    /\ [](proposal_acc.is_finalized =>
             /\ now >= proposal_acc.deadline
             /\ proposal_acc.voter_count >= proposal_acc.quorum
             /\ Revealed # {})
    /\ [][ /\ (proposal_acc'.is_finalized /\ ~proposal_acc.is_finalized)
                => \E c \in Comps : GatedReveal(c)
           /\ \A c \in Comps :
                (computations'[c].event.type = "ResultsRevealedEvent"
                 /\ computations[c].event.type # "ResultsRevealedEvent")
                => GatedReveal(c) ]_vars

\* C3 witness: a proposal was finalized by a reveal callback
C3_Witness ==
    /\ proposal_acc.is_finalized
    /\ \E c \in Revealed : computations[c].status = "applied"

\* C4: a callback that fails verification leaves the proposal as it was
\* before the callback and as it was before the instruction that submitted
\* the computation (same tally, nonce, voter_count and finalized flag).
C4_AbortLeavesPreSubmissionState ==
    [][ \A c \in Comps :
           (computations[c].status \in {"queued", "executed"}
            /\ computations'[c].status = "aborted"
            /\ computations[c].kind # "init_tallies")
           => /\ proposal_acc' = proposal_acc
              /\ proposal_acc'.vote_state = computations[c].before.vote_state
              /\ proposal_acc'.nonce = computations[c].before.nonce
              /\ proposal_acc'.voter_count = computations[c].before.voter_count
              /\ proposal_acc'.is_finalized = computations[c].before.is_finalized
      ]_vars

\* C5: at most one results-revealed notification is ever emitted.
C5_RevealedOnce == Cardinality(Revealed) <= 1

\* C6: once the proposal is finalized, reveal_results by its authority fails
\* with ProposalAlreadyFinalized, and no reveal computation is queued any
\* more (so the rejected call leads to no notification).
C6_RevealAfterFinalizedRejected ==
    /\ [](proposal_acc.is_finalized =>
             reveal_results_err(proposal_acc.authority)
                 = "ProposalAlreadyFinalized")
    /\ [][proposal_acc.is_finalized => Queued("reveal_results") = {}]_vars

\* C6 witness: a finalized proposal whose authority's reveal is rejected
C6_Witness ==
    /\ proposal_acc.is_finalized
    /\ reveal_results_err(proposal_acc.authority) = "ProposalAlreadyFinalized"
    /\ Len(computations) < MaxComps

\* the call gets past the deadline gate of the instruction
CastPassesDeadline(p) ==
    cast_vote_err(p) \in {"ProposalAlreadyFinalized", "Ok"}
RevealPassesDeadline(p) ==
    reveal_results_err(p) \in {"ProposalAlreadyFinalized", "QuorumNotMet", "Ok"}

\* C7 as stated: every cast_vote at now >= deadline fails with
\* VotingPeriodEnded and every reveal_results at now < deadline fails with
\* VotingPeriodNotEnded.
C7_DeadlineErrorsForAll ==
    proposal_acc.initialized =>
        \A p \in Users :
            /\ now >= proposal_acc.deadline
                 => cast_vote_err(p) = "VotingPeriodEnded"
            /\ now < proposal_acc.deadline
                 => reveal_results_err(p) = "VotingPeriodNotEnded"

\* C7 amended: cast_vote by a voter who has no voter record yet fails with
\* VotingPeriodEnded whenever now >= deadline, reveal_results by the
\* authority fails with VotingPeriodNotEnded whenever now < deadline, and at
\* no instant do a cast_vote and a reveal_results both pass the deadline gate.
C7_DeadlineGates ==
    proposal_acc.initialized =>
        /\ \A p \in Users :
              (VoterRecordFree(p) /\ now >= proposal_acc.deadline)
                  => cast_vote_err(p) = "VotingPeriodEnded"
        /\ now < proposal_acc.deadline
              => reveal_results_err(proposal_acc.authority)
                     = "VotingPeriodNotEnded"
        /\ \A p, q \in Users :
              ~(CastPassesDeadline(p) /\ RevealPassesDeadline(q))

\* C7 witness: at now = deadline a voter without record is turned away while
\* the authority's reveal passes the deadline gate
C7_Witness ==
    /\ proposal_acc.initialized
    /\ now = proposal_acc.deadline
    /\ \E p \in Users :
          VoterRecordFree(p) /\ cast_vote_err(p) = "VotingPeriodEnded"
    /\ RevealPassesDeadline(proposal_acc.authority)

\* C8: for a proposal that is not finalized and past its deadline,
\* reveal_results by the authority fails with QuorumNotMet when
\* voter_count < quorum and is accepted when voter_count >= quorum; an
\* accepted call queues the reveal computation.
C8_QuorumGate ==
    /\ []((/\ proposal_acc.initialized
           /\ ~proposal_acc.is_finalized
           /\ now >= proposal_acc.deadline)
          => /\ proposal_acc.voter_count < proposal_acc.quorum
                  => reveal_results_err(proposal_acc.authority) = "QuorumNotMet"
             /\ proposal_acc.voter_count >= proposal_acc.quorum
                  => reveal_results_err(proposal_acc.authority) = "Ok")
    /\ [][\A c \in Queued("reveal_results") :
             /\ reveal_results_err(proposal_acc.authority) = "Ok"
             /\ proposal_acc.voter_count >= proposal_acc.quorum]_vars

\* C8 witness: a reveal was accepted with voter_count equal to the quorum
C8_Witness ==
    \E c \in Comps :
        /\ computations[c].kind = "reveal_results"
        /\ computations[c].status = "queued"
        /\ computations[c].before.voter_count = computations[c].before.quorum

\* the step applies the verified callback of the computation c of that kind
Applies(c, kind) ==
    /\ computations[c].kind = kind
    /\ computations[c].status = "executed"
    /\ computations'[c].status = "applied"

\* C11: the tally stored by a verified init-callback is readable under the
\* nonce stored with it and reveals to count 0 for every option and total 0.
C11_InitTallyRevealsZero ==
    [][ \A c \in Comps :
           Applies(c, "init_tallies")
           => /\ proposal_acc'.vote_state.key = proposal_acc'.nonce
              /\ \A t \in Decrypt(proposal_acc'.vote_state,
                                  proposal_acc'.nonce) :
                    LET r == circuit_reveal_results(t)
                    IN  /\ \A i \in Options : Count(r, i) = u64(0)
                        /\ r.total_votes = u64(0) ]_vars

\* C11 witness: the proposal holds the tally of an applied init-callback
C11_Witness ==
    /\ \E c \in Comps : /\ computations[c].kind = "init_tallies"
                        /\ computations[c].status = "applied"
                        /\ proposal_acc.nonce = OutputNonce(c)
    /\ proposal_acc.vote_state.key = proposal_acc.nonce
    /\ proposal_acc.voter_count = 0

\* C12: once the proposal is finalized, its opaque tally and the nonce of
\* the tally never change again, whatever callback arrives.
C12_FinalizedTallyFrozen ==
    [][ proposal_acc.is_finalized
        => /\ proposal_acc'.vote_state = proposal_acc.vote_state
           /\ proposal_acc'.nonce = proposal_acc.nonce ]_vars

\* C14: a cast_vote or reveal_results call that one of the guards rejects
\* changes nothing.  A voter record is created, voter_count changes and a
\* vote computation is queued only in a step where no guard of cast_vote
\* rejects (the proposal exists, now < deadline, not finalized, the payer has
\* no voter record); a reveal computation is queued only where no guard of
\* reveal_results rejects (payer is the authority, now >= deadline, not
\* finalized, quorum met); and a step that queues nothing and completes
\* nothing leaves the proposal and the voter records as they are.
C14_RejectedCallsChangeNothing ==
    [][ /\ ( \/ voter_records' # voter_records
             \/ proposal_acc'.voter_count # proposal_acc.voter_count
             \/ Queued("cast_vote") # {} )
           => /\ proposal_acc.initialized
              /\ now < proposal_acc.deadline
              /\ ~proposal_acc.is_finalized
              /\ Queued("cast_vote") # {}
              /\ \E p \in Users \ voter_records :
                    /\ voter_records' = voter_records \cup {p}
                    /\ \A c \in Queued("cast_vote") :
                          computations'[c].payer = p
        /\ \A c \in Queued("reveal_results") :
              /\ proposal_acc.initialized
              /\ computations'[c].payer = proposal_acc.authority
              /\ now >= proposal_acc.deadline
              /\ ~proposal_acc.is_finalized
              /\ proposal_acc.voter_count >= proposal_acc.quorum
              /\ proposal_acc' = proposal_acc
              /\ voter_records' = voter_records
        /\ computations' = computations
           => /\ proposal_acc' = proposal_acc
              /\ voter_records' = voter_records ]_vars

\* C14 witness: on a finalized proposal a cast_vote is rejected with
\* VotingPeriodEnded, a cast_vote by a recorded voter is rejected by the
\* `init` of the voter record, and reveal_results is rejected with
\* ProposalAlreadyFinalized
C14_Witness ==
    /\ proposal_acc.initialized
    /\ \E p \in Users : cast_vote_err(p) = "VotingPeriodEnded"
    /\ \E p \in Users : cast_vote_err(p) = "AccountAlreadyInUse"
    /\ \E p \in Users : reveal_results_err(p) = "ProposalAlreadyFinalized"

\* the tally after folding the ballots of the vote computations a and then b
\* into the tally of init_tallies
BothFolded(a, b) ==
    circuit_cast_vote(computations[b].alloc,
                      circuit_cast_vote(computations[a].alloc, init_tallies))

\* C15: when two voters' cast_vote calls were accepted after the verified
\* init-callback of the proposal, the second while the first was pending, and both verified
\* callbacks have been applied, the opaque tally is readable under the stored
\* nonce and holds both ballots folded into the tally that existed before.
C15_ConcurrentVotesBothCounted ==
    \A a, b \in Votes :
        ( /\ a < b
          /\ Votes = {a, b}
          /\ \E i \in Comps : /\ computations[i].kind = "init_tallies"
                              /\ computations[i].status = "applied"
          /\ computations[a].status = "applied"
          /\ computations[b].status = "applied"
          /\ computations[a].pending = {}
          /\ computations[b].pending = {"cast_vote"}
          /\ computations[a].payer # computations[b].payer
          /\ ~proposal_acc.is_finalized
          /\ Revealed = {} )
        => /\ proposal_acc.vote_state.key = proposal_acc.nonce
           /\ proposal_acc.vote_state.pt = BothFolded(a, b)

\* C16: callbacks are applied in the order of submission: when the callback
\* of a computation is applied, no computation submitted earlier on the
\* proposal is still waiting for its callback.
C16_CallbacksInSubmissionOrder ==
    [][ \A a, b \in Comps :
           ( /\ a < b
             /\ computations[b].status = "executed"
             /\ computations'[b].status = "applied" )
           => computations[a].status \notin {"queued", "executed"} ]_vars

\* C17: voter_count equals the number of vote computations whose callback
\* has been applied plus the number of vote computations still pending.
C17_VoterCountLockstep ==
    proposal_acc.voter_count =
        Cardinality({c \in Votes : computations[c].status = "applied"})
        + Cardinality(Votes \cap Pending)

\* C18: a voter whose vote computation was aborted can vote again: before
\* the deadline of a proposal that is not finalized, cast_vote by that voter
\* is accepted.
C18_AbortedVoterCanResubmit ==
    \A c \in Votes :
        ( /\ computations[c].status = "aborted"
          /\ now < proposal_acc.deadline
          /\ ~proposal_acc.is_finalized )
        => cast_vote_err(computations[c].payer) = "Ok"

\* C19: on an existing proposal, reveal_results by anyone but the authority
\* fails with InvalidAuthority, whatever the time, the voter count and the
\* finalized flag are.
C19_NonAuthorityInvalidAuthority ==
    proposal_acc.initialized
    => \A p \in Users \ {proposal_acc.authority} :
          reveal_results_err(p) = "InvalidAuthority"

\* the step runs the callback, verified or not, of the computation c
Completes(c) ==
    /\ computations[c].status \in {"queued", "executed"}
    /\ computations'[c].status \in {"applied", "aborted"}

\* C20: voter_count changes only in a step that accepts a cast_vote, which
\* adds exactly 1 to it when the computation is queued; create_proposal sets
\* it to 0; no callback, verified or aborted, changes it.  A verified
\* vote-callback changes nothing of the proposal but vote_state and nonce,
\* which become the output of the computation, and logs one VoteCastEvent
\* that carries the current voter_count.
C20_VoterCountOnlyAtCastVote ==
    [][ /\ proposal_acc'.voter_count # proposal_acc.voter_count
           => /\ Queued("cast_vote") # {}
              /\ \A c \in Comps : computations'[c] = computations[c]
        /\ Queued("cast_vote") # {}
           => /\ proposal_acc'.voter_count = proposal_acc.voter_count + 1
              /\ proposal_acc' =
                     [proposal_acc EXCEPT
                          !.voter_count = proposal_acc'.voter_count]
        /\ Queued("init_tallies") # {} => proposal_acc'.voter_count = 0
        /\ \A c \in Comps :
              Completes(c)
              => proposal_acc'.voter_count = proposal_acc.voter_count
        /\ \A c \in Comps :
              Applies(c, "cast_vote")
              => /\ proposal_acc' =
                        [proposal_acc EXCEPT
                             !.vote_state = computations[c].out.ciphertexts,
                             !.nonce = computations[c].out.nonce]
                 /\ voter_records' = voter_records
                 /\ computations'[c].event =
                        [type |-> "VoteCastEvent", timestamp |-> now,
                         voter_count |-> proposal_acc.voter_count]
                 /\ computations[c].event = NoEvent
                 /\ \A d \in Comps \ {c} :
                       computations'[d] = computations[d]
                 /\ Len(computations') = Len(computations) ]_vars

\* C20 witness: the callback of the first of two accepted votes has been
\* applied while the second is pending: its event carries voter_count 2
C20_Witness ==
    \E a, b \in Votes :
        /\ computations[a].status = "applied"
        /\ computations[a].event.type = "VoteCastEvent"
        /\ computations[a].event.voter_count = 2
        /\ computations[b].status \in {"queued", "executed"}
        /\ proposal_acc.voter_count = 2

\* C21 as stated: once the proposal is finalized, cast_vote by a voter who
\* has no voter record fails with ProposalAlreadyFinalized.
C21_VoteAfterFinalizedError ==
    proposal_acc.is_finalized
    => \A p \in Users \ voter_records :
          cast_vote_err(p) = "ProposalAlreadyFinalized"

\* C21: once the proposal is finalized, cast_vote by a voter who has no
\* voter record is rejected, with VotingPeriodEnded: a finalized proposal is
\* past its deadline and the deadline gate is read before the finalized
\* flag; no vote computation is queued and no voter record is created.
C21_VoteAfterFinalizedRejected ==
    /\ [](proposal_acc.is_finalized
          => \A p \in Users \ voter_records :
                cast_vote_err(p) = "VotingPeriodEnded")
    /\ [][proposal_acc.is_finalized
          => /\ Queued("cast_vote") = {}
             /\ voter_records' = voter_records]_vars

\* C21 witness: a finalized proposal and a user who has not voted on it
C21_Witness ==
    /\ proposal_acc.is_finalized
    /\ Users \ voter_records # {}
    /\ voter_records # {}

\* C22: voter_count equals the number of voter records of the proposal; a
\* voter record is created only for a payer who has none (at most one per
\* voter), together with one vote computation of that payer; voter records
\* are never removed and voter_count never decreases.
C22_VoterCountIsGuardCount ==
    /\ [](proposal_acc.voter_count = Cardinality(voter_records))
    /\ [][ /\ voter_records \subseteq voter_records'
           /\ proposal_acc'.voter_count >= proposal_acc.voter_count
           /\ \A c \in Queued("cast_vote") :
                 /\ computations'[c].payer \notin voter_records
                 /\ voter_records' =
                        voter_records \cup {computations'[c].payer}
           /\ Cardinality(voter_records')
                  = Cardinality(voter_records)
                    + Cardinality(Queued("cast_vote")) ]_vars

\* C22 witness: every user has a voter record, one vote was aborted and one
\* applied, and voter_count is the number of users
C22_Witness ==
    /\ voter_records = Users
    /\ proposal_acc.voter_count = NumUsers
    /\ \E c \in Votes : computations[c].status = "aborted"
    /\ \E c \in Votes : computations[c].status = "applied"

\* the init computation of the proposal, once its verified callback ran
InitApplied ==
    {c \in Comps : /\ computations[c].kind = "init_tallies"
                   /\ computations[c].status = "applied"}

\* C23: a cast_vote is accepted only after the verified init-callback has
\* stored the initial tally, and no init-callback is applied once the
\* callback of a vote has been applied.
C23_VotesOnlyAfterInit ==
    [][ /\ Queued("cast_vote") # {} => InitApplied # {}
        /\ \A c \in Comps :
              Applies(c, "init_tallies")
              => \A v \in Votes : computations[v].status # "applied" ]_vars

\* every computation was submitted while no other was pending and its
\* verified callback has been applied
AllSequential ==
    \A c \in Comps : /\ computations[c].status = "applied"
                     /\ computations[c].pending = {}

\* C24: when every computation ran to its verified callback before the next
\* was submitted, the counters of the options with index >= num_options are
\* 0 in the tally and in the revealed results, and the revealed winner is
\* less than num_options.
C24_OnlyDeclaredOptionsCounted ==
    (proposal_acc.initialized /\ AllSequential)
    => /\ \A i \in Options :
             i >= proposal_acc.num_options
             => \A t \in Decrypt(proposal_acc.vote_state, proposal_acc.nonce) :
                   Count(t, i) = u64(0)
       /\ \A c \in Revealed :
             /\ computations[c].event.results.winner
                    < proposal_acc.num_options
             /\ \A i \in Options :
                   i >= proposal_acc.num_options
                   => Count(computations[c].event.results, i) = u64(0)

\* C25: when every accepted ballot is a one-credit ballot cast after the
\* init-callback and no computation was aborted, the total of every
\* results-revealed notification is voter_count (no vote is accepted once a
\* reveal was, so voter_count is what it was at the notification).
C25_RevealedTotalIsVoterCount ==
    ( /\ \A c \in Comps : computations[c].status # "aborted"
      /\ \A c \in Votes :
            /\ \E i \in Options : computations[c].alloc = OneCredit(i)
            /\ "init_tallies" \notin computations[c].pending
      /\ \A c \in Revealed : "init_tallies" \notin computations[c].pending )
    => \A c \in Revealed :
          computations[c].event.results.total_votes
              = u64(proposal_acc.voter_count)

====
